---- MODULE Spec2Model ----
(***************************************************************************)
(* Model of the root/commentary corpus tools:                              *)
(*   count_pairs.py            the pairing report over a directory listing *)
(*   originals/*.py            the extraction scripts (section-header,     *)
(*                             verse-end and line-prefix dialects)         *)
(* Text is a sequence of one-character strings; a file name is text too.   *)
(***************************************************************************)
EXTENDS Integers, Sequences, FiniteSets, TLC

VARIABLES
  listing,   \* os.listdir(directory_path): the identifiers, in listing order
  report,    \* what count_pairs_root_first returned (NoReport before the call)
  input_file, \* the input file the script's main() is set to read
  content,   \* the text read from the input file
  content2,  \* extract_ht only: the text read from the commentary file
  verses,    \* extract_ht only: the list extract_verses returned
  out,       \* the files written by the run, in order: [key, name, text]
  printed,   \* stdout, the lines the model keeps: the count warnings of medū's
             \* extract_root_verses, the breakdown by siglum of count_pairs
  pc         \* <<phase, pieces typed>>: "list"/"edit" while the input is made,
             \* then the operation that ran

pairVars == <<listing, report>>
docVars == <<input_file, content, content2>>
vars == <<listing, report, input_file, content, content2, verses, out, printed, pc>>

(***************************************************************************)
(* Bounds of the model.                                                    *)
(***************************************************************************)
MaxFiles == 5
MaxSectionPieces == 4
MaxVersePieces == 5
MaxCommentaryPieces == 4
MaxLinePieces == 5

(***************************************************************************)
(* Python str operations, on sequences of characters.                      *)
(***************************************************************************)
NL == "\n"
\* the whitespace str.strip() removes and \s matches, within the alphabet used
WS == {" ", NL}
DIGITS == {"0", "1", "2"}

startswith(s, p) == Len(p) <= Len(s) /\ SubSeq(s, 1, Len(p)) = p

endswith(s, p) == Len(p) <= Len(s) /\ SubSeq(s, Len(s) - Len(p) + 1, Len(s)) = p

\* s.lstrip(chars)
lstripOf(s, chars) ==
  LET keep == {i \in 1..Len(s) : s[i] \notin chars}
  IN IF keep = {} THEN <<>>
     ELSE SubSeq(s, CHOOSE i \in keep : \A j \in keep : i <= j, Len(s))

\* s.rstrip(chars)
rstripOf(s, chars) ==
  LET keep == {i \in 1..Len(s) : s[i] \notin chars}
  IN IF keep = {} THEN <<>>
     ELSE SubSeq(s, 1, CHOOSE i \in keep : \A j \in keep : j <= i)

\* s.strip()
strip(s) == rstripOf(lstripOf(s, WS), WS)

\* text[from:] searched for the first occurrence of pat; 0 when there is none
find(text, pat, from) ==
  LET hits == {i \in from..(Len(text) - Len(pat) + 1) :
                 SubSeq(text, i, i + Len(pat) - 1) = pat}
  IN IF hits = {} THEN 0 ELSE CHOOSE i \in hits : \A j \in hits : i <= j

\* text.split(sep), sep not empty: the pieces between non-overlapping occurrences
RECURSIVE split(_, _)
split(text, sep) ==
  LET i == find(text, sep, 1)
  IN IF i = 0 THEN <<text>>
     ELSE <<SubSeq(text, 1, i - 1)>> \o split(SubSeq(text, i + Len(sep), Len(text)), sep)

\* sep.join(parts)
RECURSIVE join(_, _)
join(sep, parts) ==
  IF parts = <<>> THEN <<>>
  ELSE IF Len(parts) = 1 THEN parts[1]
  ELSE parts[1] \o sep \o join(sep, Tail(parts))

\* the longest run of digits of text that starts at index i (\d+, greedy)
digitsAt(text, i) ==
  LET stop == {j \in i..Len(text) : text[j] \notin DIGITS}
      e == IF stop = {} THEN Len(text) ELSE (CHOOSE j \in stop : \A k \in stop : j <= k) - 1
  IN SubSeq(text, i, e)

\* int(token) for a token of digits, and str(n) as an f-string renders it
RECURSIVE int(_)
int(tok) ==
  IF tok = <<>> THEN 0
  ELSE 10 * int(SubSeq(tok, 1, Len(tok) - 1))
       + (CASE tok[Len(tok)] = "0" -> 0 [] tok[Len(tok)] = "1" -> 1 [] OTHER -> 2)

RECURSIVE str(_)
str(n) ==
  LET d == CASE n % 10 = 0 -> "0" [] n % 10 = 1 -> "1" [] n % 10 = 2 -> "2"
             [] n % 10 = 3 -> "3" [] n % 10 = 4 -> "4" [] n % 10 = 5 -> "5"
             [] n % 10 = 6 -> "6" [] n % 10 = 7 -> "7" [] n % 10 = 8 -> "8"
             [] OTHER -> "9"
  IN IF n < 10 THEN <<d>> ELSE str(n \div 10) \o <<d>>

(***************************************************************************)
(* count_pairs.py                                                          *)
(***************************************************************************)
ROOT_SUFFIX == <<"_", "r", "o", "o", "t">>
SEP == <<"_">>

NoReport == [total_root_files |-> 0, root_only_count |-> 0, single_pair_count |-> 0,
             multiple_pair_count |-> 0, total_pairs |-> 0, results |-> <<>>]

IsRoot(f) == endswith(f, ROOT_SUFFIX)

\* root_files = [f for f in files if f.endswith('_root')]
root_files(files) == SelectSeq(files, IsRoot)

\* prefix = root_file[:-5]
prefixOf(root_file) == SubSeq(root_file, 1, Len(root_file) - 5)

\* a mutant of commentaries: the test `not f.endswith('_root')` is left out
commentaries_keepRoots(files, prefix) ==
  SelectSeq(files, LAMBDA f : startswith(f, prefix \o SEP))

\* a mutant of commentaries: the matches are returned last found first
commentaries_reversed(files, prefix) ==
  LET found == SelectSeq(files, LAMBDA f : startswith(f, prefix \o SEP) /\ ~IsRoot(f))
  IN [i \in 1..Len(found) |-> found[Len(found) + 1 - i]]

\* commentaries = [f for f in files if f.startswith(prefix + '_') and not f.endswith('_root')]
commentaries(files, prefix) ==
  SelectSeq(files, LAMBDA f : startswith(f, prefix \o SEP) /\ ~IsRoot(f))

\* a mutant of pair_type: one commentary is classified as multiple-pairs
pair_type_offByOne(num_commentaries) ==
  IF num_commentaries = 0 THEN "root-only" ELSE "multiple-pairs"

\* the branch of the if/elif/else taken for num_commentaries
pair_type(num_commentaries) ==
  IF num_commentaries = 0 THEN "root-only"
  ELSE IF num_commentaries = 1 THEN "single-pair"
  ELSE "multiple-pairs"

\* a mutant of pair_step: the single-pair branch forgets total_pairs += 1
pair_step_noSingleIncrement(acc, files, root_file) ==
  LET comms == commentaries(files, prefixOf(root_file))
      n == Len(comms)
      t == pair_type(n)
  IN [total_root_files |-> acc.total_root_files,
      root_only_count |-> acc.root_only_count + (IF t = "root-only" THEN 1 ELSE 0),
      single_pair_count |-> acc.single_pair_count + (IF t = "single-pair" THEN 1 ELSE 0),
      multiple_pair_count |-> acc.multiple_pair_count + (IF t = "multiple-pairs" THEN 1 ELSE 0),
      total_pairs |-> acc.total_pairs + (IF t = "multiple-pairs" THEN n ELSE 0),
      results |-> Append(acc.results,
                    [root |-> root_file, commentaries |-> comms,
                     pairs |-> (IF t = "root-only" THEN 0 ELSE IF t = "single-pair" THEN 1 ELSE n),
                     type |-> t])]

\* one iteration of `for root_file in root_files`
pair_step(acc, files, root_file) ==
  LET comms == commentaries(files, prefixOf(root_file))
      n == Len(comms)
      t == pair_type(n)
  IN [total_root_files |-> acc.total_root_files,
      root_only_count |-> acc.root_only_count + (IF t = "root-only" THEN 1 ELSE 0),
      single_pair_count |-> acc.single_pair_count + (IF t = "single-pair" THEN 1 ELSE 0),
      multiple_pair_count |-> acc.multiple_pair_count + (IF t = "multiple-pairs" THEN 1 ELSE 0),
      total_pairs |-> acc.total_pairs
                      + (IF t = "single-pair" THEN 1 ELSE IF t = "multiple-pairs" THEN n ELSE 0),
      results |-> Append(acc.results,
                    [root |-> root_file, commentaries |-> comms,
                     pairs |-> (IF t = "root-only" THEN 0 ELSE IF t = "single-pair" THEN 1 ELSE n),
                     type |-> t])]

RECURSIVE pair_loop(_, _, _)
pair_loop(acc, files, roots) ==
  IF roots = <<>> THEN acc
  ELSE pair_loop(pair_step(acc, files, Head(roots)), files, Tail(roots))

\* count_pairs_root_first on the listing `files`
count_pairs_root_first(files) ==
  pair_loop([NoReport EXCEPT !.total_root_files = Len(root_files(files))],
            files, root_files(files))

\* the identifiers a directory of the corpus may hold
x_1_root == <<"x", "_", "1">> \o ROOT_SUFFIX
x_1_p == <<"x", "_", "1", "_", "p">>
x_1_q == <<"x", "_", "1", "_", "q">>
x_2_root == <<"x", "_", "2">> \o ROOT_SUFFIX
x_1_2_root == <<"x", "_", "1", "_", "2">> \o ROOT_SUFFIX
x_1_2_p == <<"x", "_", "1", "_", "2", "_", "p">>
x_10_p == <<"x", "_", "1", "0", "_", "p">>
FileNames == {x_1_root, x_1_p, x_1_q, x_2_root, x_1_2_root, x_1_2_p, x_10_p}

Range(s) == {s[i] : i \in 1..Len(s)}

InitPairs ==
  /\ listing = <<>>
  /\ report = NoReport
  /\ input_file = "."
  /\ content = <<>>
  /\ content2 = <<>>
  /\ verses = <<>>
  /\ out = <<>>
  /\ printed = <<>>
  /\ pc = <<"list", 0>>

\* a file appears in the directory (os.listdir returns distinct names, in any order)
AddFile ==
  /\ pc[1] = "list"
  /\ Len(listing) < MaxFiles
  /\ \E f \in FileNames \ Range(listing) : listing' = Append(listing, f)
  /\ UNCHANGED <<report, docVars, verses, out, pc, printed>>

CountPairs ==
  /\ pc[1] = "list"
  /\ report' = count_pairs_root_first(listing)
  /\ pc' = <<"counted", 0>>
  /\ UNCHANGED <<listing, docVars, verses, out, printed>>

NextPairs == AddFile \/ CountPairs

SpecPairs == InitPairs /\ [][NextPairs]_vars

(***************************************************************************)
(* count_pairs.py, main with --verbose: the breakdown by text siglum.      *)
(***************************************************************************)
\* the characters of the identifiers, in code point order (the order of sorted())
CODE_POINTS == <<"1", "2", "_", "o", "p", "q", "r", "t", "x", "y">>

ord(c) == CHOOSE i \in 1..Len(CODE_POINTS) : CODE_POINTS[i] = c

\* a < b for two str values
RECURSIVE str_less(_, _)
str_less(a, b) ==
  IF b = <<>> THEN FALSE
  ELSE IF a = <<>> THEN TRUE
  ELSE IF a[1] # b[1] THEN ord(a[1]) < ord(b[1])
  ELSE str_less(Tail(a), Tail(b))

\* sorted(keys)
RECURSIVE sorted(_)
sorted(keys) ==
  IF keys = {} THEN <<>>
  ELSE LET least == CHOOSE k \in keys : \A other \in keys \ {k} : str_less(k, other)
       IN <<least>> \o sorted(keys \ {least})

\* a mutant of text_siglum: everything before '_root' is taken for the siglum
text_siglum_wholePrefix(root) == prefixOf(root)

\* text_siglum = r['root'].split('_')[0]
text_siglum(root) == split(root, SEP)[1]

\* by_text after the loop over results: siglum -> [roots, pairs]
RECURSIVE by_text(_)
by_text(results) ==
  IF results = <<>> THEN <<>>
  ELSE LET before == by_text(SubSeq(results, 1, Len(results) - 1))
           r == results[Len(results)]
           siglum == text_siglum(r.root)
           old == IF siglum \in DOMAIN before THEN before[siglum]
                  ELSE [roots |-> 0, pairs |-> 0]
       IN [k \in DOMAIN before \cup {siglum} |->
             IF k = siglum THEN [roots |-> old.roots + 1, pairs |-> old.pairs + r.pairs]
             ELSE before[k]]

\* the lines of the breakdown, one per siglum, in the order they are printed
breakdown(results) ==
  LET stats == by_text(results)
      keys == sorted(DOMAIN stats)
  IN [i \in 1..Len(keys) |->
        [siglum |-> keys[i], roots |-> stats[keys[i]].roots,
         pairs |-> stats[keys[i]].pairs]]

\* the identifiers of a directory that holds several corpora
y_1_root == <<"y", "_", "1">> \o ROOT_SUFFIX
y_1_p == <<"y", "_", "1", "_", "p">>
xy_1_root == <<"x", "y", "_", "1">> \o ROOT_SUFFIX
SiglumNames == {x_1_root, x_1_p, x_1_q, x_2_root, y_1_root, y_1_p, xy_1_root}

\* a file appears in the directory
AddSiglumFile ==
  /\ pc[1] = "list"
  /\ Len(listing) < MaxFiles
  /\ \E f \in SiglumNames \ Range(listing) : listing' = Append(listing, f)
  /\ UNCHANGED <<report, docVars, verses, out, pc, printed>>

\* main() with --verbose: the report, then the breakdown by text siglum
MainVerbose ==
  /\ pc[1] = "list"
  /\ \E results \in {count_pairs_root_first(listing)} :
       /\ report' = results
       /\ printed' = breakdown(results.results)
  /\ pc' = <<"verbose", 0>>
  /\ UNCHANGED <<listing, docVars, verses, out>>

NextRollup == AddSiglumFile \/ MainVerbose

SpecRollup == InitPairs /\ [][NextRollup]_vars

(***************************************************************************)
(* Section-header dialect: bca_p_extraction.py, mua_extraction.py and      *)
(* extract_commentary_sections of seni_extract.py.                         *)
(***************************************************************************)
MARK == <<"-", "-", "-", " ">>

\* the number token of a marker line starting at index i, <<>> when the pattern
\* ^--- (\d+)$ (dotted: ^--- (\d+\.\d+)$), re.MULTILINE, does not match there
section_marker_at(text, i, dotted) ==
  LET atLineStart == i = 1 \/ text[i - 1] = NL
      d1 == digitsAt(text, i + 4)
      dotAt == i + 4 + Len(d1)
      d2 == digitsAt(text, dotAt + 1)
      tok == IF dotted THEN d1 \o <<".">> \o d2 ELSE d1
      stop == i + 4 + Len(tok)
  IN IF /\ atLineStart
        /\ i + 3 <= Len(text)
        /\ SubSeq(text, i, i + 3) = MARK
        /\ d1 # <<>>
        /\ dotted => (dotAt <= Len(text) /\ text[dotAt] = "." /\ d2 # <<>>)
        /\ (stop > Len(text) \/ text[stop] = NL)
     THEN tok ELSE <<>>

\* re.split(pattern, text, flags=re.MULTILINE): the text before the first marker,
\* then for each marker its number and the text up to the next marker
RECURSIVE re_split_sections(_, _)
re_split_sections(text, dotted) ==
  LET hits == {i \in 1..Len(text) : section_marker_at(text, i, dotted) # <<>>}
  IN IF hits = {} THEN <<text>>
     ELSE LET i == CHOOSE h \in hits : \A j \in hits : h <= j
              tok == section_marker_at(text, i, dotted)
          IN <<SubSeq(text, 1, i - 1), tok>>
             \o re_split_sections(SubSeq(text, i + 4 + Len(tok), Len(text)), dotted)

\* if sections[0].strip() == '': sections = sections[1:]
drop_first_section(sections) ==
  IF strip(sections[1]) = <<>> THEN Tail(sections) ELSE sections

\* seni only: the lines of section_content that do not start with '>' once stripped
seni_clean(section_content) ==
  join(<<NL>>, SelectSeq(split(section_content, <<NL>>),
                         LAMBDA line : ~startswith(strip(line), <<">">>)))

bca_p_filename(section_number) ==
  <<"b", "c", "a", "_", "p", "_">> \o section_number \o <<".", "t", "x", "t">>

mua_filename(section_number) ==
  <<"h", "t", "_", "1", ".", "5", ".">> \o section_number \o <<"_", "m", "u", "a">>

seni_p_filename(section_number) ==
  <<"s", "e", "n", "i", "_">> \o section_number \o <<"_", "p", ".", "t", "x", "t">>

\* for i in range(0, len(sections) - 1, 2): the (section_number, section_content)
\* pairs, as the loop reads them from the list
section_pairs(sections) ==
  [k \in 1..(Len(sections) \div 2) |->
     [number |-> sections[2 * k - 1], body |-> sections[2 * k]]]

\* the body of the loop: trim, skip an empty section, write the file
section_units(sections, dialect) ==
  LET pairs == section_pairs(sections)
      unit(k) ==
        LET raw == IF dialect = "seni" THEN seni_clean(pairs[k].body) ELSE pairs[k].body
            section_content == rstripOf(lstripOf(raw, {NL}), WS)
        IN [key |-> pairs[k].number,
            name |-> CASE dialect = "bca_p" -> bca_p_filename(pairs[k].number)
                       [] dialect = "mua" -> mua_filename(pairs[k].number)
                       [] OTHER -> seni_p_filename(pairs[k].number),
            text |-> section_content]
  IN SelectSeq([k \in 1..Len(pairs) |-> unit(k)], LAMBDA u : strip(u.text) # <<>>)

bca_p_extract_commentary_sections(text) ==
  section_units(drop_first_section(re_split_sections(text, TRUE)), "bca_p")

extract_mua_commentary(text) ==
  section_units(drop_first_section(re_split_sections(text, FALSE)), "mua")

seni_extract_commentary_sections(text) ==
  section_units(drop_first_section(re_split_sections(text, FALSE)), "seni")

\* the pieces a section-header document is typed from, per input file
SectionPieces(file) ==
  { <<"-", "-", "-", " ", "1", NL>>,
    <<"-", "-", "-", " ", "1", ".", "1", NL>>,
    <<"A", NL>>,
    <<" ", "B", NL>>,
    <<" ", NL>>,
    <<NL>> }
  \cup (IF file = "bca_5_comm" THEN {<<"-", "-", "-", " ", "1", ".", "2", NL>>}
        ELSE IF file = "mua_5" THEN {<<"-", "-", "-", " ", "2", NL>>}
        ELSE {<<"-", "-", "-", " ", "2", NL>>, <<">", "r", NL>>})

InitSection ==
  /\ listing = <<>>
  /\ report = NoReport
  /\ input_file \in {"bca_5_comm", "mua_5", "seni"}
  /\ content = <<>>
  /\ content2 = <<>>
  /\ verses = <<>>
  /\ out = <<>>
  /\ printed = <<>>
  /\ pc = <<"edit", 0>>

\* the input file grows by one piece
TypeSection ==
  /\ pc[1] = "edit"
  /\ pc[2] < MaxSectionPieces
  /\ \E p \in SectionPieces(input_file) : content' = content \o p
  /\ pc' = <<"edit", pc[2] + 1>>
  /\ UNCHANGED <<pairVars, input_file, content2, verses, out, printed>>

RunBcaP ==
  /\ pc[1] = "edit"
  /\ input_file = "bca_5_comm"
  /\ out' = bca_p_extract_commentary_sections(content)
  /\ pc' = <<"bca_p", pc[2]>>
  /\ UNCHANGED <<pairVars, docVars, verses, printed>>

RunMua ==
  /\ pc[1] = "edit"
  /\ input_file = "mua_5"
  /\ out' = extract_mua_commentary(content)
  /\ pc' = <<"mua", pc[2]>>
  /\ UNCHANGED <<pairVars, docVars, verses, printed>>

RunSeniCommentary ==
  /\ pc[1] = "edit"
  /\ input_file = "seni"
  /\ out' = seni_extract_commentary_sections(content)
  /\ pc' = <<"seni_p", pc[2]>>
  /\ UNCHANGED <<pairVars, docVars, verses, printed>>

NextSection == TypeSection \/ RunBcaP \/ RunMua \/ RunSeniCommentary

SpecSection == InitSection /\ [][NextSection]_vars

(***************************************************************************)
(* Verse-end dialect: bca_root_extract.py, extract_ht.py and               *)
(* extract_root_verses of seni_extract.py.                                 *)
(***************************************************************************)
BAR_OPEN == <<"|", "|", " ">>
BAR_CLOSE == <<" ", "|", "|">>

\* the number token of a marker starting at index i, <<>> when \|\| (\d+) \|\|
\* (dotted: \|\| (\d+\.\d+) \|\|) does not match there
verse_marker_at(text, i, dotted) ==
  LET d1 == digitsAt(text, i + 3)
      dotAt == i + 3 + Len(d1)
      d2 == digitsAt(text, dotAt + 1)
      tok == IF dotted THEN d1 \o <<".">> \o d2 ELSE d1
      stop == i + 3 + Len(tok)
  IN IF /\ i + 2 <= Len(text)
        /\ SubSeq(text, i, i + 2) = BAR_OPEN
        /\ d1 # <<>>
        /\ dotted => (dotAt <= Len(text) /\ text[dotAt] = "." /\ d2 # <<>>)
        /\ stop + 2 <= Len(text)
        /\ SubSeq(text, stop, stop + 2) = BAR_CLOSE
     THEN tok ELSE <<>>

\* the least element of a non-empty set of numbers
Min(S) == CHOOSE a \in S : \A b \in S : a <= b

\* the successive matches of (.*?)\|\| N \|\| with re.DOTALL from index pos on:
\* a match starts at the first index from which a marker can still be reached
\* (the scan tries pos first, and the lazy group can reach any later marker), its
\* group runs up to the first marker (at mark), and it ends after that marker.
\* (Values are bound by \in so that each is evaluated once.)
RECURSIVE verse_matches(_, _, _)
verse_matches(text, pos, dotted) ==
  LET hits == {i \in pos..Len(text) : verse_marker_at(text, i, dotted) # <<>>}
  IN IF hits = {} THEN <<>>
     ELSE CHOOSE ms \in
            { <<[start |-> start, mark |-> mark, number |-> tok,
                 stop |-> mark + 6 + Len(tok)]>>
              \o verse_matches(text, mark + 6 + Len(tok), dotted) :
                <<start, mark, tok>> \in
                  { <<st, h, verse_marker_at(text, h, dotted)>> :
                      <<st, h>> \in
                        { <<Min({t \in pos..Len(text) : \E g \in hits : g >= t}), g2>> :
                            g2 \in {Min(hits)} } } } : TRUE

bca_filename(verse_number) ==
  <<"b", "c", "a", "_">> \o verse_number \o <<".", "t", "x", "t">>

\* a mutant of restore_marker: the marker is not added back
restore_marker_dropped(verse_text, verse_number) == verse_text

\* full_verse = verse_text + f" || {verse_number} ||"
restore_marker(verse_text, verse_number) ==
  verse_text \o <<" ">> \o BAR_OPEN \o verse_number \o BAR_CLOSE

\* the loop of extract_verse_sections over the matches: the files it writes
RECURSIVE verse_section_units(_, _, _)
verse_section_units(text, matches, k) ==
  IF k > Len(matches) THEN <<>>
  ELSE CHOOSE us \in
         { (IF strip(verse_text) = <<>> THEN <<>>
            ELSE <<[key |-> matches[k].number,
                    name |-> bca_filename(matches[k].number),
                    text |-> restore_marker(verse_text, matches[k].number)]>>)
           \o verse_section_units(text, matches, k + 1) :
             verse_text \in
               { lstripOf(strip(SubSeq(text, matches[k].start, matches[k].mark - 1)),
                          {NL}) } } : TRUE

\* extract_verse_sections of bca_root_extract.py on the text of the input file
extract_verse_sections(text) ==
  CHOOSE us \in { verse_section_units(text, matches, 1) :
                    matches \in {verse_matches(text, 1, TRUE)} } : TRUE

\* re.split(r'\|\| (\d+\.\d+) \|\|', content): the text before each marker and
\* the marker's number, in turn, then the text after the last marker
RECURSIVE re_split_verses(_, _, _, _)
re_split_verses(text, matches, k, from) ==
  IF k > Len(matches) THEN <<SubSeq(text, from, Len(text))>>
  ELSE <<SubSeq(text, from, matches[k].mark - 1), matches[k].number>>
       \o re_split_verses(text, matches, k + 1, matches[k].stop)

\* if parts[0].strip() == '': parts = parts[1:]
drop_first_part(parts) == IF strip(parts[1]) = <<>> THEN Tail(parts) ELSE parts

\* re.match(r'\d+\.\d+$', part.strip())
is_verse_number(part) ==
  LET tok == strip(part)
      d1 == digitsAt(tok, 1)
      d2 == digitsAt(tok, Len(d1) + 2)
  IN /\ d1 # <<>>
     /\ Len(d1) + 1 <= Len(tok)
     /\ tok[Len(d1) + 1] = "."
     /\ d2 # <<>>
     /\ Len(d1) + 1 + Len(d2) = Len(tok)

\* the alternative method saving current_verse under current_number
save_current_verse(current_verse, current_number) ==
  IF current_verse # <<>> /\ current_number # <<>> /\ strip(current_verse) # <<>>
  THEN <<[key |-> current_number,
          name |-> bca_filename(current_number),
          text |-> restore_marker(strip(current_verse), current_number)]>>
  ELSE <<>>

\* for i, part in enumerate(parts), from the part at index i (1-based) on, and
\* the handling of the last verse after the loop
RECURSIVE alternative_loop(_, _, _, _)
alternative_loop(parts, i, current_verse, current_number) ==
  IF i > Len(parts) THEN save_current_verse(current_verse, current_number)
  ELSE IF is_verse_number(parts[i])
  THEN save_current_verse(current_verse, current_number)
       \o alternative_loop(parts, i + 1, <<>>, strip(parts[i]))
  ELSE alternative_loop(parts, i + 1,
                        IF i > 1 THEN parts[i] ELSE current_verse, current_number)

\* extract_verses_alternative_method of bca_root_extract.py: the files it writes
extract_verses_alternative_method(text) ==
  CHOOSE us \in
    { alternative_loop(parts, 1, <<>>, <<>>) :
        parts \in { drop_first_part(re_split_verses(text, matches, 1, 1)) :
                      matches \in {verse_matches(text, 1, TRUE)} } } : TRUE

\* verse_number = int(match.group(2))
verse_number_of(tok) == int(tok)

\* the loop of extract_verses (extract_ht.py) over the matches, with last_end
RECURSIVE extract_verses_loop(_, _, _)
extract_verses_loop(text, matches, last_end) ==
  IF matches = <<>> THEN <<>>
  ELSE LET m == Head(matches)
           verse_text == strip(SubSeq(text, m.start, m.stop - 1))
           verse_number == verse_number_of(m.number)
           intro_text == strip(SubSeq(text, 1, m.start - 1))
           intro == IF verse_number = 1 /\ last_end = 0 /\ m.start - 1 > 0
                       /\ intro_text # <<>>
                    THEN <<[number |-> 0, text |-> intro_text]>>
                    ELSE <<>>
       IN intro \o <<[number |-> verse_number, text |-> verse_text]>>
          \o extract_verses_loop(text, Tail(matches), m.stop - 1)

\* extract_verses: the list of (verse_number, verse_text) it returns
extract_verses(text) ==
  CHOOSE vs \in { extract_verses_loop(text, matches, 0) :
                    matches \in {verse_matches(text, 1, FALSE)} } : TRUE

\* the index after the run of whitespace that starts at index i (\s*, greedy)
wsRunEnd(text, i) ==
  LET stop == {j \in i..Len(text) : text[j] \notin WS}
  IN IF stop = {} THEN Len(text) + 1 ELSE CHOOSE j \in stop : \A k \in stop : j <= k

\* ^\s*(\d+)\s*\n at index i: the number and the index after the match (the last
\* newline of the whitespace after the number), stop = 0 when it does not match
commentary_header_at(text, i) ==
  LET p == wsRunEnd(text, i)
      tok == digitsAt(text, p)
      q == p + Len(tok)
      r == wsRunEnd(text, q)
      nls == {j \in q..(r - 1) : text[j] = NL}
  IN IF (i = 1 \/ text[i - 1] = NL) /\ tok # <<>> /\ nls # {}
     THEN [number |-> tok, stop |-> (CHOOSE j \in nls : \A k \in nls : k <= j) + 1]
     ELSE [number |-> <<>>, stop |-> 0]

\* the lookahead (?=^\s*\d+\s*$|\Z) at index i
commentary_ends_at(text, i) ==
  LET p == wsRunEnd(text, i)
      tok == digitsAt(text, p)
      q == p + Len(tok)
      r == wsRunEnd(text, q)
  IN \/ i = Len(text) + 1
     \/ /\ (i = 1 \/ text[i - 1] = NL)
        /\ tok # <<>>
        /\ (r = Len(text) + 1 \/ \E j \in q..(r - 1) : text[j] = NL)

\* the successive matches of commentary_pattern from index pos on
RECURSIVE commentary_matches(_, _)
commentary_matches(text, pos) ==
  LET starts == {i \in pos..Len(text) : commentary_header_at(text, i).stop # 0}
  IN IF starts = {} THEN <<>>
     ELSE CHOOSE ms \in
            { <<[number |-> int(h.number), text |-> strip(SubSeq(text, h.stop, e - 1))]>>
              \o commentary_matches(text, e) :
                <<h, e>> \in
                  { <<h2, Min({e2 \in h2.stop..(Len(text) + 1) :
                                 commentary_ends_at(text, e2)})>> :
                      h2 \in {commentary_header_at(text, Min(starts))} } } : TRUE

\* extract_commentaries: the dict verse_number -> commentary_text (a later match
\* of a number replaces an earlier one)
extract_commentaries(text) ==
  CHOOSE d \in
    { [n \in {ms[k].number : k \in 1..Len(ms)} |->
         ms[CHOOSE k \in 1..Len(ms) :
              ms[k].number = n /\ \A j \in 1..Len(ms) : ms[j].number = n => j <= k].text] :
        ms \in {commentary_matches(text, 1)} } : TRUE

ht_filename(verse_number, suffix) ==
  <<"h", "t", "_", "1", ".", "5", ".">> \o str(verse_number) \o suffix
  \o <<".", "t", "x", "t">>

\* save_to_files: the files it writes, in order
RECURSIVE save_to_files(_, _)
save_to_files(vs, comms) ==
  IF vs = <<>> THEN <<>>
  ELSE LET v == Head(vs)
           mula == [key |-> v.number,
                    name |-> ht_filename(v.number, <<"_", "m", "u", "l", "a">>),
                    text |-> v.text]
           raa == [key |-> v.number,
                   name |-> ht_filename(v.number, <<"_", "r", "a", "a">>),
                   text |-> comms[v.number]]
       IN (IF v.number = 0 THEN <<>>
           ELSE IF v.number \in DOMAIN comms THEN <<mula, raa>> ELSE <<mula>>)
          \o save_to_files(Tail(vs), comms)

SENI_OPEN == <<"|", "|", " ", "S", "e", "N", "i", " ">>

\* re.search(r'\|\| SeNi (\d+) \|\|\s*$', line): the number, <<>> without a match
seni_verse_end(line) ==
  LET tokAt(i) == digitsAt(line, i + 8)
      ok(i) == /\ i + 7 <= Len(line)
               /\ SubSeq(line, i, i + 7) = SENI_OPEN
               /\ tokAt(i) # <<>>
               /\ i + 8 + Len(tokAt(i)) + 2 <= Len(line)
               /\ SubSeq(line, i + 8 + Len(tokAt(i)), i + 10 + Len(tokAt(i))) = BAR_CLOSE
               /\ wsRunEnd(line, i + 11 + Len(tokAt(i))) = Len(line) + 1
      hits == {i \in 1..Len(line) : ok(i)}
  IN IF hits = {} THEN <<>> ELSE tokAt(CHOOSE i \in hits : \A j \in hits : i <= j)

\* verses_dict[verse_num] = text: an existing key keeps its place
dict_set(dict, key, text) ==
  IF \E k \in 1..Len(dict) : dict[k].key = key
  THEN [k \in 1..Len(dict) |->
          IF dict[k].key = key THEN [key |-> key, text |-> text] ELSE dict[k]]
  ELSE Append(dict, [key |-> key, text |-> text])

\* the grouping loop of extract_root_verses (seni_extract.py)
RECURSIVE seni_group(_, _, _)
seni_group(verse_lines, current_verse, verses_dict) ==
  IF verse_lines = <<>> THEN verses_dict
  ELSE LET line == Head(verse_lines)
           cur == Append(current_verse, line)
           verse_num == seni_verse_end(line)
       IN IF verse_num # <<>>
          THEN seni_group(Tail(verse_lines), <<>>,
                          dict_set(verses_dict, verse_num, join(<<NL>>, cur)))
          ELSE seni_group(Tail(verse_lines), cur, verses_dict)

seni_root_filename(verse_num) ==
  <<"s", "e", "n", "i", "_">> \o verse_num \o <<"_", "r", "o", "o", "t", ".", "t", "x", "t">>

\* extract_root_verses of seni_extract.py: the files it writes
seni_extract_root_verses(text) ==
  LET lines == split(text, <<NL>>)
      marked == SelectSeq(lines, LAMBDA line : startswith(strip(line), <<">">>))
      verse_lines == [k \in 1..Len(marked) |-> strip(Tail(strip(marked[k])))]
      verses_dict == seni_group(verse_lines, <<>>, <<>>)
  IN [k \in 1..Len(verses_dict) |->
        [key |-> verses_dict[k].key,
         name |-> seni_root_filename(verses_dict[k].key),
         text |-> verses_dict[k].text]]

\* the pieces a verse-end document is typed from, per input file
VersePieces(file) ==
  IF file = "bca_5.txt"
  THEN { <<"a", " ">>, <<"b">>, <<NL>>,
         BAR_OPEN \o <<"1", ".", "1">> \o BAR_CLOSE,
         BAR_OPEN \o <<"1", ".", "2">> \o BAR_CLOSE }
  ELSE IF file = "ht_1.5"
  THEN { <<"a", " ">>, <<NL>>,
         BAR_OPEN \o <<"1">> \o BAR_CLOSE,
         BAR_OPEN \o <<"0", "1">> \o BAR_CLOSE,
         BAR_OPEN \o <<"2">> \o BAR_CLOSE }
  ELSE { <<">", "a", " ">>, <<"c", " ">>, <<NL>>,
         SENI_OPEN \o <<"1">> \o BAR_CLOSE,
         SENI_OPEN \o <<"2">> \o BAR_CLOSE }

InitVerse ==
  /\ listing = <<>>
  /\ report = NoReport
  /\ input_file \in {"bca_5.txt", "ht_1.5", "seni"}
  /\ content = <<>>
  /\ content2 = <<>>
  /\ verses = <<>>
  /\ out = <<>>
  /\ printed = <<>>
  /\ pc = <<"edit", 0>>

\* the input file grows by one piece
TypeVerse ==
  /\ pc[1] = "edit"
  /\ pc[2] < MaxVersePieces
  /\ \E p \in VersePieces(input_file) : content' = content \o p
  /\ pc' = <<"edit", pc[2] + 1>>
  /\ UNCHANGED <<pairVars, input_file, content2, verses, out, printed>>

\* main() of bca_root_extract.py: the primary method
RunBcaRoot ==
  /\ pc[1] = "edit"
  /\ input_file = "bca_5.txt"
  /\ out' = extract_verse_sections(content)
  /\ pc' = <<"bca", pc[2]>>
  /\ UNCHANGED <<pairVars, docVars, verses, printed>>

\* main(root_text_file, commentary_file, output_dir) of extract_ht.py
RunHt ==
  /\ pc[1] = "edit"
  /\ input_file = "ht_1.5"
  /\ \E vs \in {extract_verses(content)}, comms \in {extract_commentaries(content2)} :
       /\ verses' = vs
       /\ out' = save_to_files(vs, comms)
  /\ pc' = <<"ht", pc[2]>>
  /\ UNCHANGED <<pairVars, docVars, printed>>

\* extract_root_verses(content, output_dir) of seni_extract.py
RunSeniRoot ==
  /\ pc[1] = "edit"
  /\ input_file = "seni"
  /\ out' = seni_extract_root_verses(content)
  /\ pc' = <<"seni_root", pc[2]>>
  /\ UNCHANGED <<pairVars, docVars, verses, printed>>

NextVerse == TypeVerse \/ RunBcaRoot \/ RunHt \/ RunSeniRoot

SpecVerse == InitVerse /\ [][NextVerse]_vars

InitAlternative ==
  /\ listing = <<>>
  /\ report = NoReport
  /\ input_file = "bca_5.txt"
  /\ content = <<>>
  /\ content2 = <<>>
  /\ verses = <<>>
  /\ out = <<>>
  /\ printed = <<>>
  /\ pc = <<"edit", 0>>

\* main() of bca_root_extract.py with the alternative method switched on
RunBcaAlternative ==
  /\ pc[1] = "edit"
  /\ input_file = "bca_5.txt"
  /\ out' = extract_verses_alternative_method(content)
  /\ pc' = <<"bca_alt", pc[2]>>
  /\ UNCHANGED <<pairVars, docVars, verses, printed>>

NextAlternative == TypeVerse \/ RunBcaRoot \/ RunBcaAlternative

SpecAlternative == InitAlternative /\ [][NextAlternative]_vars

\* the root texts and the pieces of the commentary file of extract_ht.py
HtRootTexts ==
  { <<>>,
    <<"a", " ">> \o BAR_OPEN \o <<"1">> \o BAR_CLOSE,
    <<"a", " ">> \o BAR_OPEN \o <<"1">> \o BAR_CLOSE \o <<NL, "b", " ">>
      \o BAR_OPEN \o <<"2">> \o BAR_CLOSE }

CommentaryPieces == { <<"1", NL>>, <<"2", NL>>, <<"c", NL>>, <<" ">>, <<NL>> }

InitHt ==
  /\ listing = <<>>
  /\ report = NoReport
  /\ input_file = "ht_1.5"
  /\ content \in HtRootTexts
  /\ content2 = <<>>
  /\ verses = <<>>
  /\ out = <<>>
  /\ printed = <<>>
  /\ pc = <<"edit", 0>>

\* the commentary file grows by one piece
TypeCommentary ==
  /\ pc[1] = "edit"
  /\ pc[2] < MaxCommentaryPieces
  /\ \E p \in CommentaryPieces : content2' = content2 \o p
  /\ pc' = <<"edit", pc[2] + 1>>
  /\ UNCHANGED <<pairVars, input_file, content, verses, out, printed>>

NextHt == TypeCommentary \/ RunHt

SpecHt == InitHt /\ [][NextHt]_vars

(***************************************************************************)
(* Line-prefix dialect: medū.py (and the '>' lines seni_extract.py drops   *)
(* from its commentary sections).                                          *)
(***************************************************************************)
DASHES == <<"-", "-", "-">>

\* the character ū of the file names, which the module's character set lacks
U_MACRON == "u-macron"

medu_filename(verse_number, suffix) ==
  <<"m", "e", "d", U_MACRON, "_">> \o str(verse_number) \o suffix
  \o <<".", "t", "x", "t">>

\* root_lines: for each line starting with '>', the line without it, unless blank
medu_root_lines(lines) ==
  LET marked == SelectSeq(lines, LAMBDA line :
                            startswith(line, <<">">>) /\ strip(Tail(line)) # <<>>)
  IN [k \in 1..Len(marked) |-> Tail(marked[k])]

\* commentary_lines: the non-empty lines that do not start with '>'
medu_commentary_lines(lines) ==
  SelectSeq(lines, LAMBDA line : line # <<>> /\ ~startswith(line, <<">">>))

\* save_root_verse: the file written for verse_lines under verse_number
\* (frag, the index of the fragment in content.split('---'), is kept for the claims)
save_root_verse(verse_lines, verse_number, frag) ==
  [key |-> verse_number,
   name |-> medu_filename(verse_number, <<"_", "r", "o", "o", "t">>),
   text |-> strip(join(<<NL>>, verse_lines)),
   frag |-> frag]

\* verse_counter after a fragment with these root lines (both branches that save)
root_counter_after(verse_counter, root_lines) ==
  IF Len(root_lines) = 2 THEN verse_counter + 1
  ELSE IF Len(root_lines) > 0 THEN verse_counter + 1
  ELSE verse_counter

\* the loop of extract_root_verses (medū.py) from fragment k on
RECURSIVE medu_root_loop(_, _, _)
medu_root_loop(sections, k, verse_counter) ==
  IF k > Len(sections) THEN <<>>
  ELSE CHOOSE us \in
         { IF section = <<>> THEN medu_root_loop(sections, k + 1, verse_counter)
           ELSE CHOOSE us2 \in
                  { (IF Len(root_lines) > 0
                     THEN <<save_root_verse(root_lines, verse_counter, k)>> ELSE <<>>)
                    \o medu_root_loop(sections, k + 1,
                                      root_counter_after(verse_counter, root_lines)) :
                      root_lines \in {medu_root_lines(split(section, <<NL>>))} } : TRUE :
             section \in {strip(sections[k])} } : TRUE

\* a mutant of count_warning: fragments with one root line are not reported
count_warning_notForOne(root_lines, verse_counter) ==
  IF Len(root_lines) > 2
  THEN <<[count |-> Len(root_lines), verse |-> verse_counter]>> ELSE <<>>

\* print(f"Warning: Found {len(root_lines)} root lines in verse {verse_counter},
\* expected 2"), in the elif branch only
count_warning(root_lines, verse_counter) ==
  IF Len(root_lines) = 2 THEN <<>>
  ELSE IF Len(root_lines) > 0
  THEN <<[count |-> Len(root_lines), verse |-> verse_counter]>> ELSE <<>>

\* the warnings the loop of extract_root_verses prints from fragment k on
RECURSIVE medu_warning_loop(_, _, _)
medu_warning_loop(sections, k, verse_counter) ==
  IF k > Len(sections) THEN <<>>
  ELSE CHOOSE ws \in
         { IF section = <<>> THEN medu_warning_loop(sections, k + 1, verse_counter)
           ELSE CHOOSE ws2 \in
                  { count_warning(root_lines, verse_counter)
                    \o medu_warning_loop(sections, k + 1,
                                         root_counter_after(verse_counter, root_lines)) :
                      root_lines \in {medu_root_lines(split(section, <<NL>>))} } : TRUE :
             section \in {strip(sections[k])} } : TRUE

\* the warnings extract_root_verses prints on the text of the input file
medu_root_warnings(text) ==
  CHOOSE ws \in { medu_warning_loop(sections, 1, 1) :
                    sections \in {split(text, DASHES)} } : TRUE

\* extract_root_verses of medū.py on the text of the input file
medu_extract_root_verses(text) ==
  CHOOSE us \in { medu_root_loop(sections, 1, 1) :
                    sections \in {split(text, DASHES)} } : TRUE

\* a mutant of commentary_text: the '>' lines are kept in the commentary
commentary_text_keepRoots(lines) == strip(join(<<NL>>, lines))

\* commentary_content of a fragment's lines
commentary_text(lines) == strip(join(<<NL>>, medu_commentary_lines(lines)))

\* the loop of extract_commentary (medū.py) from fragment k on
RECURSIVE medu_commentary_loop(_, _, _)
medu_commentary_loop(sections, k, verse_counter) ==
  IF k > Len(sections) THEN <<>>
  ELSE CHOOSE us \in
         { IF section = <<>> THEN medu_commentary_loop(sections, k + 1, verse_counter)
           ELSE (IF medu_commentary_lines(split(section, <<NL>>)) # <<>>
                 THEN <<[key |-> verse_counter,
                         name |-> medu_filename(verse_counter, <<"_", "v", "i">>),
                         text |-> commentary_text(split(section, <<NL>>)),
                         frag |-> k]>>
                 ELSE <<>>)
                \o medu_commentary_loop(sections, k + 1, verse_counter + 1) :
             section \in {strip(sections[k])} } : TRUE

\* extract_commentary of medū.py on the text of the input file
extract_commentary(text) ==
  CHOOSE us \in { medu_commentary_loop(sections, 1, 1) :
                    sections \in {split(text, DASHES)} } : TRUE

LINE1 == <<"l", "i", "n", "e", "1">>
LINE2 == <<"l", "i", "n", "e", "2">>
NOTE == <<"n", "o", "t", "e">>

\* the pieces a line-prefix document is typed from, per input file
LinePieces(file) ==
  { <<">">> \o LINE1 \o <<NL>>, <<">">> \o LINE2 \o <<NL>>, NOTE \o <<NL>> }
  \cup (IF file = "seni"
        THEN { MARK \o <<"1", NL>>, <<" ", ">">> \o LINE1 \o <<NL>> }
        ELSE { DASHES \o <<NL>>, <<" ", NL>>, <<">", " ", "c", NL>> })

InitLinePrefix ==
  /\ listing = <<>>
  /\ report = NoReport
  /\ input_file \in {"meghaduta_shortened.txt", "seni"}
  /\ content = <<>>
  /\ content2 = <<>>
  /\ verses = <<>>
  /\ out = <<>>
  /\ printed = <<>>
  /\ pc = <<"edit", 0>>

\* the input file grows by one piece
TypeLine ==
  /\ pc[1] = "edit"
  /\ pc[2] < MaxLinePieces
  /\ \E p \in LinePieces(input_file) : content' = content \o p
  /\ pc' = <<"edit", pc[2] + 1>>
  /\ UNCHANGED <<pairVars, input_file, content2, verses, out, printed>>

\* choice "1": extract_root_verses(input_file, output_dir)
MeduChoice1 ==
  /\ pc[1] = "edit"
  /\ input_file = "meghaduta_shortened.txt"
  /\ out' = medu_extract_root_verses(content)
  /\ pc' = <<"medu1", pc[2]>>
  /\ printed' = medu_root_warnings(content)
  /\ UNCHANGED <<pairVars, docVars, verses>>

\* choice "2": extract_commentary(input_file, output_dir)
MeduChoice2 ==
  /\ pc[1] = "edit"
  /\ input_file = "meghaduta_shortened.txt"
  /\ out' = extract_commentary(content)
  /\ pc' = <<"medu2", pc[2]>>
  /\ UNCHANGED <<pairVars, docVars, verses, printed>>

\* choice "3": both, into the same directory
MeduChoice3 ==
  /\ pc[1] = "edit"
  /\ input_file = "meghaduta_shortened.txt"
  /\ out' = medu_extract_root_verses(content) \o extract_commentary(content)
  /\ pc' = <<"medu3", pc[2]>>
  /\ printed' = medu_root_warnings(content)
  /\ UNCHANGED <<pairVars, docVars, verses>>

NextLinePrefix ==
  TypeLine \/ MeduChoice1 \/ MeduChoice2 \/ MeduChoice3 \/ RunSeniCommentary

SpecLinePrefix == InitLinePrefix /\ [][NextLinePrefix]_vars

\* the pieces of a medū document whose commentary has blank and indented lines
LayoutPieces ==
  { NOTE \o <<NL>>, <<" ">> \o NOTE \o <<NL>>, <<NL>>,
    <<">">> \o LINE1 \o <<NL>>, DASHES \o <<NL>> }

InitLayout ==
  /\ listing = <<>>
  /\ report = NoReport
  /\ input_file = "meghaduta_shortened.txt"
  /\ content = <<>>
  /\ content2 = <<>>
  /\ verses = <<>>
  /\ out = <<>>
  /\ printed = <<>>
  /\ pc = <<"edit", 0>>

\* the input file grows by one piece
TypeLayout ==
  /\ pc[1] = "edit"
  /\ pc[2] < MaxLinePieces
  /\ \E p \in LayoutPieces : content' = content \o p
  /\ pc' = <<"edit", pc[2] + 1>>
  /\ UNCHANGED <<pairVars, input_file, content2, verses, out, printed>>

NextLayout == TypeLayout \/ MeduChoice2

SpecLayout == InitLayout /\ [][NextLayout]_vars

(***************************************************************************)
(* The output directory: what open(filepath, 'w') and write leave in it.   *)
(***************************************************************************)
\* a mutant of open_w: the file is opened for appending
open_a(dir, unit) ==
  IF \E i \in 1..Len(dir) : dir[i].name = unit.name
  THEN [i \in 1..Len(dir) |->
          IF dir[i].name = unit.name
          THEN [dir[i] EXCEPT !.text = dir[i].text \o unit.text] ELSE dir[i]]
  ELSE Append(dir, unit)

\* with open(filepath, 'w', encoding='utf-8') as f: f.write(content)
\* a file of that name is replaced, a new one is created
open_w(dir, unit) ==
  IF \E i \in 1..Len(dir) : dir[i].name = unit.name
  THEN [i \in 1..Len(dir) |-> IF dir[i].name = unit.name THEN unit ELSE dir[i]]
  ELSE Append(dir, unit)

\* the directory after the writes of units, in order, into dir
RECURSIVE written_files(_, _)
written_files(dir, units) ==
  IF units = <<>> THEN dir
  ELSE written_files(open_w(dir, Head(units)), Tail(units))

\* the extractor that brought the run to this phase, on the same text
extractor_of(phase, text) ==
  CASE phase = "bca_p" -> bca_p_extract_commentary_sections(text)
    [] phase = "medu1" -> medu_extract_root_verses(text)
    [] phase = "seni_root" -> seni_extract_root_verses(text)

\* the phase after a second run of the extractor of phase
twice(phase) ==
  CASE phase = "bca_p" -> "bca_p_twice"
    [] phase = "medu1" -> "medu1_twice"
    [] phase = "seni_root" -> "seni_root_twice"

\* the pieces of the input file of each of the three extractors
RerunPieces(file) ==
  CASE file = "bca_5_comm" -> SectionPieces(file)
    [] file = "meghaduta_shortened.txt" -> LinePieces(file)
    [] file = "seni" -> VersePieces(file)

InitRerun ==
  /\ listing = <<>>
  /\ report = NoReport
  /\ input_file \in {"bca_5_comm", "meghaduta_shortened.txt", "seni"}
  /\ content = <<>>
  /\ content2 = <<>>
  /\ verses = <<>>
  /\ out = <<>>
  /\ printed = <<>>
  /\ pc = <<"edit", 0>>

\* the input file grows by one piece
TypeRerun ==
  /\ pc[1] = "edit"
  /\ pc[2] < MaxSectionPieces
  /\ \E p \in RerunPieces(input_file) : content' = content \o p
  /\ pc' = <<"edit", pc[2] + 1>>
  /\ UNCHANGED <<pairVars, input_file, content2, verses, out, printed>>

\* the same extractor is run again on the same input file and output directory:
\* out becomes the directory that the writes of both runs leave
Rerun ==
  /\ pc[1] \in {"bca_p", "medu1", "seni_root"}
  /\ out' = written_files(written_files(<<>>, out), extractor_of(pc[1], content))
  /\ pc' = <<twice(pc[1]), pc[2]>>
  /\ printed' = printed \o (IF pc[1] = "medu1" THEN medu_root_warnings(content)
                              ELSE <<>>)
  /\ UNCHANGED <<pairVars, docVars, verses>>

NextRerun == TypeRerun \/ RunBcaP \/ MeduChoice1 \/ RunSeniRoot \/ Rerun

SpecRerun == InitRerun /\ [][NextRerun]_vars

(***************************************************************************)
(* An extraction run followed by count_pairs.py on its output directory.   *)
(***************************************************************************)
\* the pieces of an input file with root lines and commentary, per input file
PipelinePieces(file) ==
  IF file = "seni"
  THEN { <<">", "a", " ">> \o SENI_OPEN \o <<"1">> \o BAR_CLOSE \o <<NL>>,
         <<">", "a", " ">> \o SENI_OPEN \o <<"2">> \o BAR_CLOSE \o <<NL>>,
         MARK \o <<"1", NL>>, MARK \o <<"2", NL>>, <<"c", NL>> }
  ELSE LinePieces(file)

\* the input file grows by one piece
TypePipeline ==
  /\ pc[1] = "edit"
  /\ pc[2] < MaxLinePieces
  /\ \E p \in PipelinePieces(input_file) : content' = content \o p
  /\ pc' = <<"edit", pc[2] + 1>>
  /\ UNCHANGED <<pairVars, input_file, content2, verses, out, printed>>

\* extract_seni_texts: extract_root_verses, then extract_commentary_sections
RunSeniBoth ==
  /\ pc[1] = "edit"
  /\ input_file = "seni"
  /\ out' = seni_extract_root_verses(content) \o seni_extract_commentary_sections(content)
  /\ pc' = <<"seni_both", pc[2]>>
  /\ UNCHANGED <<pairVars, docVars, verses, printed>>

\* the names of the files of a directory, as created and in the opposite order
\* (os.listdir returns them in arbitrary order)
listdir(dir) ==
  LET names == [i \in 1..Len(dir) |-> dir[i].name]
  IN {names, [i \in 1..Len(names) |-> names[Len(names) + 1 - i]]}

\* count_pairs.py -d output_dir, after the extraction run
CountOutput ==
  /\ pc[1] \in {"medu3", "seni_both"}
  /\ \E files \in listdir(written_files(<<>>, out)) :
       /\ listing' = files
       /\ report' = count_pairs_root_first(files)
  /\ pc' = <<"counted_output", pc[2]>>
  /\ UNCHANGED <<docVars, verses, out, printed>>

NextPipeline == TypePipeline \/ MeduChoice3 \/ RunSeniBoth \/ CountOutput

SpecPipeline == InitLinePrefix /\ [][NextPipeline]_vars

(***************************************************************************)
(* Writes that fail: open(filepath, 'w') raises for the file named bad.    *)
(***************************************************************************)
\* try: with open(filepath, 'w') ...: write  except Exception as e: print(...)
\* in a loop: the unit whose write fails is reported, the loop goes on
writes_with_except(units, bad) == SelectSeq(units, LAMBDA u : u.name # bad)

\* the same writes in save_to_files, which has no try/except: the first write
\* that fails raises out of the loop and out of main
writes_without_except(units, bad) ==
  LET failing == {i \in 1..Len(units) : units[i].name = bad}
  IN IF failing = {} THEN [written |-> units, raised |-> FALSE]
     ELSE [written |-> SubSeq(units, 1, Min(failing) - 1), raised |-> TRUE]

InitUnwritable ==
  /\ listing = <<>>
  /\ report = NoReport
  /\ input_file \in {"ht_1.5", "bca_5_comm"}
  /\ content \in (IF input_file = "ht_1.5" THEN HtRootTexts ELSE {<<>>})
  /\ content2 = <<>>
  /\ verses = <<>>
  /\ out = <<>>
  /\ printed = <<>>
  /\ pc = <<"edit", 0>>

\* the commentary file of extract_ht, or the input file of bca_p, grows by a piece
TypeUnwritable ==
  /\ pc[1] = "edit"
  /\ pc[2] < MaxCommentaryPieces
  /\ IF input_file = "ht_1.5"
     THEN /\ \E p \in CommentaryPieces : content2' = content2 \o p
          /\ UNCHANGED content
     ELSE /\ \E p \in SectionPieces(input_file) : content' = content \o p
          /\ UNCHANGED content2
  /\ pc' = <<"edit", pc[2] + 1>>
  /\ UNCHANGED <<pairVars, input_file, verses, out, printed>>

\* main of extract_ht.py when the file named bad, one of those it writes,
\* cannot be opened for writing
RunHtUnwritable ==
  /\ pc[1] = "edit"
  /\ input_file = "ht_1.5"
  /\ \E vs \in {extract_verses(content)}, comms \in {extract_commentaries(content2)} :
       \E units \in {save_to_files(vs, comms)} :
         \E bad \in {units[i].name : i \in 1..Len(units)} :
           \E io \in {writes_without_except(units, bad)} :
             /\ verses' = vs
             /\ out' = io.written
             /\ pc' = <<IF io.raised THEN "raised" ELSE "finished", pc[2]>>
  /\ UNCHANGED <<pairVars, docVars, printed>>

\* main of bca_p_extraction.py when the file named bad, one of those it
\* writes, cannot be opened for writing
RunBcaPUnwritable ==
  /\ pc[1] = "edit"
  /\ input_file = "bca_5_comm"
  /\ \E units \in {bca_p_extract_commentary_sections(content)} :
       \E bad \in {units[i].name : i \in 1..Len(units)} :
         out' = writes_with_except(units, bad)
  /\ pc' = <<"finished", pc[2]>>
  /\ UNCHANGED <<pairVars, docVars, verses, printed>>

NextUnwritable == TypeUnwritable \/ RunHtUnwritable \/ RunBcaPUnwritable

SpecUnwritable == InitUnwritable /\ [][NextUnwritable]_vars

(***************************************************************************)
(* Claims about count_pairs_root_first (checked under SpecPairs).          *)
(***************************************************************************)
RECURSIVE SumSeq(_)
SumSeq(s) == IF s = <<>> THEN 0 ELSE Head(s) + SumSeq(Tail(s))

SumOver(s, F(_)) == SumSeq([i \in 1..Len(s) |-> F(s[i])])

\* f is prefix, then '_', then anything
HasPrefixAndSep(f, prefix) ==
  /\ Len(f) > Len(prefix)
  /\ \A j \in 1..Len(prefix) : f[j] = prefix[j]
  /\ f[Len(prefix) + 1] = "_"

\* f is something followed by the five characters _root
EndsInRoot(f) ==
  /\ Len(f) >= 5
  /\ <<f[Len(f) - 4], f[Len(f) - 3], f[Len(f) - 2], f[Len(f) - 1], f[Len(f)]>>
       = <<"_", "r", "o", "o", "t">>

\* C1: in every report, root_only_count + single_pair_count + multiple_pair_count
\* equals total_root_files, and total_pairs equals single_pair_count plus the sum
\* of 'pairs' over the multiple-pairs results, which is the sum of
\* len(commentaries) over all results.
C1_CountsAddUp ==
  pc[1] = "counted" =>
    /\ report.root_only_count + report.single_pair_count + report.multiple_pair_count
         = report.total_root_files
    /\ report.total_pairs
         = report.single_pair_count
           + SumOver(report.results,
                     LAMBDA r : IF r.type = "multiple-pairs" THEN r.pairs ELSE 0)
    /\ report.total_pairs = SumOver(report.results, LAMBDA r : Len(r.commentaries))

\* a report in which all three categories occur
C1_Witness ==
  /\ pc[1] = "counted"
  /\ report.root_only_count >= 1
  /\ report.single_pair_count >= 1
  /\ report.multiple_pair_count >= 1

\* C2: for every identifier r of the listing ending in _root, with prefix = r
\* minus _root, the commentaries of r's result are exactly the identifiers of the
\* listing that start with prefix + '_' and do not end in _root; no root
\* identifier appears in any commentaries list.
C2_CommentariesExact ==
  pc[1] = "counted" =>
    /\ \A i \in 1..Len(listing) :
         EndsInRoot(listing[i]) =>
           \E k \in 1..Len(report.results) :
             LET res == report.results[k]
                 prefix == SubSeq(listing[i], 1, Len(listing[i]) - 5)
             IN /\ res.root = listing[i]
                /\ Range(res.commentaries)
                     = {f \in Range(listing) : HasPrefixAndSep(f, prefix) /\ ~EndsInRoot(f)}
                /\ Len(res.commentaries) = Cardinality(Range(res.commentaries))
    /\ \A k \in 1..Len(report.results) :
         \A j \in 1..Len(report.results[k].commentaries) :
           ~EndsInRoot(report.results[k].commentaries[j])

\* a root with a commentary whose prefix also starts another root identifier
C2_Witness ==
  /\ pc[1] = "counted"
  /\ {x_1_root, x_1_2_root, x_1_p} \subseteq Range(listing)
  /\ \E k \in 1..Len(report.results) :
       /\ report.results[k].root = x_1_root
       /\ x_1_p \in Range(report.results[k].commentaries)

\* C3: every record has pairs = len(commentaries) and its type is root-only iff
\* that count is 0, single-pair iff it is 1, multiple-pairs iff it is more; the
\* listing {x_1_root, x_1_p, x_1_q, x_2_root} gives x_1_root 2 matches
\* (multiple-pairs), x_2_root 0 matches (root-only) and total_pairs = 2.
C3_TypeByCount ==
  pc[1] = "counted" =>
    /\ \A k \in 1..Len(report.results) :
         LET res == report.results[k]
             n == Len(res.commentaries)
         IN /\ res.pairs = n
            /\ res.type \in {"root-only", "single-pair", "multiple-pairs"}
            /\ (res.type = "root-only") <=> (n = 0)
            /\ (res.type = "single-pair") <=> (n = 1)
            /\ (res.type = "multiple-pairs") <=> (n > 1)
    /\ (Len(listing) = 4 /\ Range(listing) = {x_1_root, x_1_p, x_1_q, x_2_root}) =>
         /\ report.total_pairs = 2
         /\ Len(report.results) = 2
         /\ \A k \in 1..2 :
              LET res == report.results[k]
              IN /\ res.root = x_1_root => (res.pairs = 2 /\ res.type = "multiple-pairs")
                 /\ res.root = x_2_root => (res.pairs = 0 /\ res.type = "root-only")
                 /\ res.root \in {x_1_root, x_2_root}

\* the report of the scenario's listing
C3_Witness ==
  /\ pc[1] = "counted"
  /\ Len(listing) = 4
  /\ Range(listing) = {x_1_root, x_1_p, x_1_q, x_2_root}
  /\ report.total_root_files = 2

(***************************************************************************)
(* Claims about the section-header dialect (checked under SpecSection).    *)
(***************************************************************************)
SectionRan == pc[1] \in {"bca_p", "mua", "seni_p"}

\* the indices of content at which a marker line of the dialect that ran starts
MarkerStarts ==
  {i \in 1..Len(content) : section_marker_at(content, i, pc[1] = "bca_p") # <<>>}

\* the numbers of the marker lines of content
MarkerNumbers ==
  {section_marker_at(content, i, pc[1] = "bca_p") : i \in MarkerStarts}

\* content from its first marker line on
FromFirstMarker == SubSeq(content, Min(MarkerStarts), Len(content))

\* the extractor that ran, applied to another text
SameExtractor(text) ==
  CASE pc[1] = "bca_p" -> bca_p_extract_commentary_sections(text)
    [] pc[1] = "mua" -> extract_mua_commentary(text)
    [] OTHER -> seni_extract_commentary_sections(text)

\* C4: when the document has non-blank text before its first marker line, that
\* text is discarded: it is never used as a unit's key (every key is a marker
\* number of the document) nor written as a unit, and the units written are the
\* same (key, content) pairs as for the document without that leading text.
C4_LeadingTextDiscarded ==
  (/\ SectionRan
   /\ MarkerStarts # {}
   /\ strip(SubSeq(content, 1, Min(MarkerStarts) - 1)) # <<>>) =>
    /\ \A k \in 1..Len(out) :
         /\ out[k].key \in MarkerNumbers
         /\ out[k].key # SubSeq(content, 1, Min(MarkerStarts) - 1)
         /\ out[k].text # strip(SubSeq(content, 1, Min(MarkerStarts) - 1))
    /\ out = SameExtractor(FromFirstMarker)

\* '--- N' followed by the body, for each pair in order
RECURSIVE Reassemble(_)
Reassemble(pairs) ==
  IF pairs = <<>> THEN <<>>
  ELSE MARK \o Head(pairs).number \o Head(pairs).body \o Reassemble(Tail(pairs))

\* the (section number, body) pairs the loop of the extractor that ran reads
PairsRead ==
  section_pairs(drop_first_section(re_split_sections(content, pc[1] = "bca_p")))

\* C10: the (section number, body) pairs of the split, each body re-prefixed
\* with its marker line, concatenate to exactly the text from the first marker
\* line to the end of the document; nothing before the first marker is in a pair.
C10_PairsReassemble ==
  SectionRan =>
    Reassemble(PairsRead) = (IF MarkerStarts = {} THEN <<>> ELSE FromFirstMarker)

(***************************************************************************)
(* Claims about the verse-end dialect (checked under SpecVerse).           *)
(***************************************************************************)
\* text ends with a marker || T || whose number token T satisfies Ok
EndsWithMarker(text, Ok(_)) ==
  \E i \in 1..Len(text) :
    LET tok == verse_marker_at(text, i, pc[1] = "bca")
    IN tok # <<>> /\ i + 6 + Len(tok) = Len(text) + 1 /\ Ok(tok)

A_11 == <<"a", " ">> \o BAR_OPEN \o <<"1", ".", "1">> \o BAR_CLOSE
A_12 == <<"a", " ">> \o BAR_OPEN \o <<"1", ".", "2">> \o BAR_CLOSE

\* the scenario 'Line one || 1.1 ||\nLine two || 1.2 ||' (each line's text is 'a')
ScenarioTwoVerses ==
  /\ pc[1] = "bca"
  /\ content = A_11 \o <<NL>> \o A_12

\* C6 as stated: every unit emitted for key K ends with the literal marker of
\* that key, '|| K ||' ('|| SeNi K ||' for seni), K written as the key is.
C6_EndsWithKeyMarker ==
  /\ pc[1] = "bca" =>
       \A k \in 1..Len(out) :
         endswith(out[k].text, BAR_OPEN \o out[k].key \o BAR_CLOSE)
  /\ pc[1] = "ht" =>
       /\ \A k \in 1..Len(verses) :
            endswith(verses[k].text, BAR_OPEN \o str(verses[k].number) \o BAR_CLOSE)
       /\ \A k \in 1..Len(out) :
            endswith(out[k].text, BAR_OPEN \o str(out[k].key) \o BAR_CLOSE)
  /\ pc[1] = "seni_root" =>
       \A k \in 1..Len(out) :
         endswith(out[k].text, SENI_OPEN \o out[k].key \o BAR_CLOSE)

\* C6, amended: every unit emitted for key K ends with the closing marker as the
\* document writes it: literally '|| K ||' ('|| SeNi K ||') for
\* extract_verse_sections and seni's extract_root_verses, whose key is the
\* number token itself, and '|| T ||' with int(T) = K for extract_verses
\* (extract_ht), whose key is the integer value of the token T; the scenario's
\* two verses come out as 1.1 -> 'a || 1.1 ||' and 1.2 -> 'a || 1.2 ||'.
C6_EndsWithDocumentMarker ==
  /\ pc[1] = "bca" =>
       \A k \in 1..Len(out) :
         endswith(out[k].text, BAR_OPEN \o out[k].key \o BAR_CLOSE)
  /\ pc[1] = "ht" =>
       /\ \A k \in 1..Len(verses) :
            EndsWithMarker(verses[k].text, LAMBDA tok : int(tok) = verses[k].number)
       /\ \A k \in 1..Len(out) :
            EndsWithMarker(out[k].text, LAMBDA tok : int(tok) = out[k].key)
       /\ Len(out) = Len(verses)
  /\ pc[1] = "seni_root" =>
       \A k \in 1..Len(out) :
         endswith(out[k].text, SENI_OPEN \o out[k].key \o BAR_CLOSE)
  /\ ScenarioTwoVerses =>
       /\ Len(out) = 2
       /\ out[1].key = <<"1", ".", "1">> /\ out[1].text = A_11
       /\ out[2].key = <<"1", ".", "2">> /\ out[2].text = A_12

\* the scenario has run, and so has extract_verses on a marker with a leading zero
C6_Witness ==
  \/ ScenarioTwoVerses /\ Len(out) = 2
  \/ /\ pc[1] = "ht"
     /\ \E k \in 1..Len(verses) :
          /\ verses[k].number = 1
          /\ endswith(verses[k].text, BAR_OPEN \o <<"0", "1">> \o BAR_CLOSE)

\* the indices of content at which a verse-end marker of extract_ht starts
HtMarkerStarts ==
  {i \in 1..Len(content) : verse_marker_at(content, i, FALSE) # <<>>}

\* C7: in extract_verses, non-blank text before the first verse-end marker is
\* emitted as an intro fragment with key 0 placed before the first verse and is
\* not part of the first verse's content; with blank or no text before the first
\* marker no key-0 fragment is emitted.
C7_IntroFragment ==
  (pc[1] = "ht" /\ HtMarkerStarts # {}) =>
    LET lead == SubSeq(content, 1, Min(HtMarkerStarts) - 1)
    IN IF strip(lead) # <<>>
       THEN /\ Len(verses) >= 2
            /\ verses[1] = [number |-> 0, text |-> strip(lead)]
            /\ verses[2].text
                 = SubSeq(content, Min(HtMarkerStarts),
                          Min(HtMarkerStarts) + 5
                          + Len(verse_marker_at(content, Min(HtMarkerStarts), FALSE)))
       ELSE \A k \in 1..Len(verses) : verses[k].number # 0

(***************************************************************************)
(* Claims about the line-prefix dialect (checked under SpecLinePrefix).    *)
(***************************************************************************)
\* C5: no extractor ever writes a file with empty content: a unit that is empty
\* after trimming is skipped, not persisted.
C5_NoEmptyFile ==
  \A k \in 1..Len(out) : out[k].text # <<>> /\ strip(out[k].text) # <<>>

Fragments == split(content, DASHES)

\* the 1-based position of fragment k among the non-blank fragments
Ordinal(k) == Cardinality({j \in 1..k : strip(Fragments[j]) # <<>>})

IsRootUnit(u) == endswith(u.name, <<"_", "r", "o", "o", "t", ".", "t", "x", "t">>)

\* C8: the root unit and the commentary unit written for the same fragment
\* carry the same key number, and that number is the fragment's 1-based ordinal
\* position among the non-blank fragments of the document.
C8_SharedOrdinalKey ==
  pc[1] = "medu3" =>
    /\ \A i, j \in 1..Len(out) : out[i].frag = out[j].frag => out[i].key = out[j].key
    /\ \A i \in 1..Len(out) : out[i].key = Ordinal(out[i].frag)

\* the lines of a text
Lines(text) == split(text, <<NL>>)

\* fragment k is the scenario: its '>' lines are >line1 and >line2, in this
\* order, and every other line is 'note'
ScenarioFragment(k) ==
  LET lines == Lines(strip(Fragments[k]))
  IN /\ strip(Fragments[k]) # <<>>
     /\ SelectSeq(lines, LAMBDA l : l # <<>> /\ l[1] = ">")
          = << <<">">> \o LINE1, <<">">> \o LINE2 >>
     /\ \A i \in 1..Len(lines) : (lines[i] = <<>> \/ lines[i][1] # ">") => lines[i] = NOTE

\* C9: for a fragment whose '>' lines are line1 and line2 and whose other lines
\* are 'note', wherever the '>' lines stand, the root unit content is exactly
\* 'line1\nline2' and the commentary unit has none of the '>' lines (it is made
\* of the 'note' lines only); a commentary section written by seni's extractor
\* holds no line that starts with '>' either.
C9_RootLinesSeparated ==
  /\ pc[1] = "medu3" =>
       \A k \in 1..Len(Fragments) :
         ScenarioFragment(k) =>
           /\ \E i \in 1..Len(out) :
                /\ IsRootUnit(out[i]) /\ out[i].frag = k
                /\ out[i].text = LINE1 \o <<NL>> \o LINE2
           /\ \A i \in 1..Len(out) :
                (~IsRootUnit(out[i]) /\ out[i].frag = k) =>
                  \A n \in 1..Len(Lines(out[i].text)) : Lines(out[i].text)[n] = NOTE
  /\ pc[1] = "seni_p" =>
       \A i \in 1..Len(out) :
         \A n \in 1..Len(Lines(out[i].text)) :
           LET l == strip(Lines(out[i].text)[n]) IN l = <<>> \/ l[1] # ">"

\* a fragment with 'note' between its two '>' lines, and both its units written
C9_Witness ==
  /\ pc[1] = "medu3"
  /\ \E k \in 1..Len(Fragments) :
       /\ Lines(strip(Fragments[k])) = << <<">">> \o LINE1, NOTE, <<">">> \o LINE2 >>
       /\ \E i, j \in 1..Len(out) :
            /\ out[i].frag = k /\ IsRootUnit(out[i])
            /\ out[j].frag = k /\ ~IsRootUnit(out[j]) /\ out[j].text = NOTE

(***************************************************************************)
(* Claims about the layout of a unit's content (checked under SpecLayout). *)
(***************************************************************************)
IsBlank(line) == strip(line) = <<>>

\* lines without its leading and trailing blank lines, the rest untouched
TrimBlankLines(lines) ==
  LET kept == {i \in 1..Len(lines) : ~IsBlank(lines[i])}
  IN IF kept = {} THEN <<>>
     ELSE SubSeq(lines, Min(kept), CHOOSE i \in kept : \A j \in kept : j <= i)

\* the commentary text of fragment k: its lines that are not root-prefixed
CommentaryOf(k) ==
  SelectSeq(Lines(Fragments[k]), LAMBDA l : l = <<>> \/ l[1] # ">")

\* C11: every persisted unit's content equals the text of its fragment with
\* only leading and trailing blank lines removed: internal blank lines are kept
\* and the indentation of every kept line, the first included, is unchanged
\* (here for the commentary units of medū's extract_commentary).
C11_ContentVerbatim ==
  pc[1] = "medu2" =>
    \A i \in 1..Len(out) :
      Lines(out[i].text) = TrimBlankLines(CommentaryOf(out[i].frag))

(***************************************************************************)
(* Claims about running an extractor again (checked under SpecRerun).      *)
(***************************************************************************)
RanTwice == pc[1] \in {"bca_p_twice", "medu1_twice", "seni_root_twice"}

\* the extractor that was run twice, on a text
ExtractorRunTwice(text) ==
  CASE pc[1] = "bca_p_twice" -> bca_p_extract_commentary_sections(text)
    [] pc[1] = "medu1_twice" -> medu_extract_root_verses(text)
    [] OTHER -> seni_extract_root_verses(text)

\* C12: after an extractor has run twice on the same input text and output
\* directory, the directory holds exactly the files one run leaves: the same
\* names (keys) with the same contents, one file per name.
C12_RerunLeavesSameFiles ==
  RanTwice =>
    /\ out = written_files(<<>>, ExtractorRunTwice(content))
    /\ \A i, j \in 1..Len(out) : out[i].name = out[j].name => i = j
    /\ \A i \in 1..Len(out) :
         \E k \in 1..Len(ExtractorRunTwice(content)) :
           ExtractorRunTwice(content)[k].name = out[i].name

\* extract_commentary_sections has run twice on a document in which it writes
\* two sections under one name: one file is left
C12_Witness ==
  /\ pc[1] = "bca_p_twice"
  /\ Len(bca_p_extract_commentary_sections(content)) = 2
  /\ Len(out) = 1

(***************************************************************************)
(* Claims about the keys of the section-header dialect (SpecSection).      *)
(***************************************************************************)
\* tok is digits (mua, seni) or digits.digits (bca_p)
IsNumericToken(tok, dotted) ==
  LET whole == digitsAt(tok, 1)
  IN /\ whole # <<>>
     /\ IF dotted
        THEN /\ Len(tok) > Len(whole) + 1
             /\ tok[Len(whole) + 1] = "."
             /\ Len(whole) + 1 + Len(digitsAt(tok, Len(whole) + 2)) = Len(tok)
        ELSE Len(whole) = Len(tok)

\* C13: every unit written by the section-header extractors has a key that is a
\* numeric token of the dialect's shape, taken from a '--- N' marker line of the
\* document; no text is written under a key that is not a marker number.
C13_KeysAreMarkerNumbers ==
  SectionRan =>
    \A k \in 1..Len(out) :
      /\ IsNumericToken(out[k].key, pc[1] = "bca_p")
      /\ out[k].key \in MarkerNumbers

(***************************************************************************)
(* Claims about a write that fails (checked under SpecUnwritable).         *)
(***************************************************************************)
\* the units the run assembled, whether or not their files could be written
Assembled ==
  IF input_file = "ht_1.5"
  THEN save_to_files(verses, extract_commentaries(content2))
  ELSE bca_p_extract_commentary_sections(content)

\* C14: when the write of one unit's file fails, the extractor finishes without
\* raising and has written every other unit that it assembled.
C14_WriteFailureNotFatal ==
  pc[1] \in {"raised", "finished"} =>
    /\ pc[1] = "finished"
    /\ \E i \in 1..Len(Assembled) :
         out = SelectSeq(Assembled, LAMBDA u : u.name # Assembled[i].name)

(***************************************************************************)
(* Claims about the root lines of a fragment (SpecLinePrefix).             *)
(***************************************************************************)
\* the non-empty root-prefixed lines of a fragment, prefix removed
RootLinesOf(fragment) ==
  LET lines == SelectSeq(Lines(strip(fragment)),
                         LAMBDA l : l # <<>> /\ l[1] = ">" /\ strip(Tail(l)) # <<>>)
  IN [i \in 1..Len(lines) |-> Tail(lines[i])]

\* the root units written for fragment k
RootUnitsOf(k) == SelectSeq(out, LAMBDA u : IsRootUnit(u) /\ u.frag = k)

\* C15: in extract_root_verses a non-blank fragment with k >= 1 non-empty
\* root-prefixed lines is written as one root unit holding all k lines; when
\* k # 2 one warning names k (and the unit's verse number), when k = 2 there is
\* none; a fragment with k = 0 writes no root unit; this holds for every
\* fragment of the document, those after a warning included.
C15_RootCountWarning ==
  pc[1] \in {"medu1", "medu3"} =>
    \E frs \in {Fragments} :
      \E lines \in {[k \in 1..Len(frs) |-> RootLinesOf(frs[k])]} :
        /\ \A k \in 1..Len(frs) :
             \E us \in {RootUnitsOf(k)} :
               IF lines[k] = <<>> THEN us = <<>>
               ELSE /\ Len(us) = 1
                    /\ us[1].text = strip(join(<<NL>>, lines[k]))
                    /\ Len(Lines(us[1].text)) = Len(lines[k])
                    /\ Cardinality({w \in 1..Len(printed) :
                                      printed[w].verse = us[1].key})
                         = (IF Len(lines[k]) = 2 THEN 0 ELSE 1)
                    /\ Len(lines[k]) # 2 =>
                         [count |-> Len(lines[k]), verse |-> us[1].key]
                           \in Range(printed)
        /\ Len(printed)
             = Cardinality({k \in 1..Len(frs) : Len(lines[k]) \notin {0, 2}})

\* a fragment with one root line is followed by a fragment with three: two
\* warnings, two root units
C15_Witness ==
  /\ pc[1] = "medu1"
  /\ Len(Fragments) >= 2
  /\ Len(RootLinesOf(Fragments[1])) = 1
  /\ Len(RootLinesOf(Fragments[2])) = 3
  /\ Len(printed) = 2
  /\ Len(out) = 2

(***************************************************************************)
(* Claims about the breakdown by siglum (checked under SpecRollup).        *)
(***************************************************************************)
\* the token of an identifier before its first '_'
TokenBeforeFirstSep(f) ==
  LET seps == {i \in 1..Len(f) : f[i] = "_"}
  IN IF seps = {} THEN f ELSE SubSeq(f, 1, Min(seps) - 1)

\* the records of the report whose root has this siglum
RecordsOf(siglum) ==
  SelectSeq(report.results, LAMBDA r : TokenBeforeFirstSep(r.root) = siglum)

\* C16: the breakdown has one line per siglum, the token of a root identifier
\* before its first '_': roots is the number of root identifiers of that siglum
\* and pairs the sum of their pair counts; roots sum to total_root_files and
\* pairs to total_pairs; the lines are in ascending lexicographic order.
C16_RollupBySiglum ==
  pc[1] = "verbose" =>
    /\ {printed[i].siglum : i \in 1..Len(printed)}
         = {TokenBeforeFirstSep(report.results[k].root) : k \in 1..Len(report.results)}
    /\ \A i \in 1..Len(printed) :
         /\ printed[i].roots = Len(RecordsOf(printed[i].siglum))
         /\ printed[i].pairs = SumOver(RecordsOf(printed[i].siglum), LAMBDA r : r.pairs)
    /\ SumOver(printed, LAMBDA line : line.roots) = report.total_root_files
    /\ SumOver(printed, LAMBDA line : line.pairs) = report.total_pairs
    /\ \A i, j \in 1..Len(printed) : i < j => str_less(printed[i].siglum, printed[j].siglum)

\* the sigla x, xy and y are all in the breakdown, x with two roots and a pair
C16_Witness ==
  /\ pc[1] = "verbose"
  /\ Len(printed) = 3
  /\ printed[1] = [siglum |-> <<"x">>, roots |-> 2, pairs |-> 1]
  /\ printed[2].siglum = <<"x", "y">>
  /\ printed[3].siglum = <<"y">>

(***************************************************************************)
(* Claims about the order and the sharing of matches (SpecPairs).          *)
(***************************************************************************)
\* the position of an identifier in the listing
IndexInListing(f) == CHOOSE i \in 1..Len(listing) : listing[i] = f

\* C17: the commentaries of every record are in the relative order in which
\* they occur in the listing (never re-sorted), and the records are in the
\* listing order of their root identifiers.
C17_ListingOrderKept ==
  pc[1] = "counted" =>
    /\ \A k \in 1..Len(report.results) :
         \A i, j \in 1..Len(report.results[k].commentaries) :
           i < j => IndexInListing(report.results[k].commentaries[i])
                      < IndexInListing(report.results[k].commentaries[j])
    /\ \A k, l \in 1..Len(report.results) :
         k < l => IndexInListing(report.results[k].root)
                    < IndexInListing(report.results[l].root)

\* the listing holds x_1_q before x_1_p and x_2_root before x_1_root, and the
\* report keeps both orders
C17_Witness ==
  /\ pc[1] = "counted"
  /\ Len(report.results) = 2
  /\ report.results[1].root = x_2_root
  /\ report.results[2].root = x_1_root
  /\ report.results[2].commentaries = <<x_1_q, x_1_p>>

\* the identifiers of the listing that do not end with _root
NonRoots == {f \in Range(listing) : ~EndsInRoot(f)}

\* C18: each non-root identifier of the listing is in the commentaries of at
\* most one root identifier, so total_pairs is at most the number of non-root
\* identifiers, also for x_1_root and x_1_2_root with x_1_2_p.
C18_CommentaryOfOneRoot ==
  pc[1] = "counted" =>
    /\ \A f \in NonRoots :
         Cardinality({k \in 1..Len(report.results) :
                        f \in Range(report.results[k].commentaries)}) <= 1
    /\ report.total_pairs <= Cardinality(NonRoots)

(***************************************************************************)
(* Claims about counting the extractors' output (SpecPipeline).            *)
(***************************************************************************)
\* the names of the root files the run wrote
RootFilesWritten == {out[i].name : i \in {j \in 1..Len(out) : IsRootUnit(out[j])}}

\* the file name of the commentary unit of the corpus and key of a root unit
CommentaryNameOf(u) ==
  IF input_file = "seni" THEN seni_p_filename(u.key)
  ELSE medu_filename(u.key, <<"_", "v", "i">>)

\* C19: count_pairs_root_first on the listing of the output directory counts
\* every root unit the extractors wrote as a root file: total_root_files is the
\* number of root files written, each has a record, and the record's
\* commentaries hold the commentary unit written for the same corpus and key.
C19_OutputRootsCounted ==
  pc[1] = "counted_output" =>
    /\ report.total_root_files = Cardinality(RootFilesWritten)
    /\ \A i \in 1..Len(out) :
         IsRootUnit(out[i]) =>
           \E k \in 1..Len(report.results) :
             /\ report.results[k].root = out[i].name
             /\ (\E j \in 1..Len(out) : out[j].name = CommentaryNameOf(out[i])) =>
                  CommentaryNameOf(out[i]) \in Range(report.results[k].commentaries)

(***************************************************************************)
(* Claims about the alternative verse extraction (SpecAlternative).        *)
(***************************************************************************)
\* the (verse number, content) pairs of a sequence of units
UnitPairs(units) == {<<units[i].key, units[i].text>> : i \in 1..Len(units)}

\* C20: extract_verses_alternative_method writes the same set of (verse
\* number, content) units as extract_verse_sections: each verse number goes
\* with the text that precedes its closing marker, not with the text after it.
C20_AlternativeAgrees ==
  pc[1] = "bca_alt" =>
    UnitPairs(out) = UnitPairs(extract_verse_sections(content))

====
